---- MODULE Spec2Model ----
(***************************************************************************)
(* Model of symlark (src/symlark/symlark.py): reconciliation of a working  *)
(* ("GWS") tree of versioned dataset directories against an archive tree.  *)
(*                                                                         *)
(* Path strings are sequences of one-character strings, so that the code's *)
(* string operations (comparison, endswith, iteration over a str) can be   *)
(* computed as the code computes them.                                     *)
(***************************************************************************)
EXTENDS Integers, Sequences, FiniteSets, TLC

(***************************************************************************)
(* Bounds of the model.                                                    *)
(***************************************************************************)
MaxVer == 3        \* version directories are v00000001 .. v0000000<MaxVer>
MaxSize == 2       \* file sizes are 1 .. MaxSize
MaxDigest == 2     \* MD5 digests are 1 .. MaxDigest
MaxRuns == 2       \* main() is run MaxRuns times in succession
MaxEntries == 2    \* working version entries present in the first dataset
MaxCmpFiles == 2   \* files present in a directory given to dirs_match alone
MaxNames == 2      \* named children of a directory given to discovery alone

Versions == 1 .. MaxVer
Datasets == {"d", "e"}          \* dataset container directories /d and /e
TopNames == {"f", "v", "w"}     \* names of direct file entries of a version
Digits == <<"1", "2", "3", "4", "5", "6", "7", "8", "9">>

Range(s) == {s[i] : i \in DOMAIN s}

(***************************************************************************)
(* Paths.  bd1 and bd2 are the two arguments of main().                    *)
(***************************************************************************)
bd1 == <<"/", "w">>
bd2 == <<"/", "a">>

VerName(v) == <<"v", "0", "0", "0", "0", "0", "0", "0", Digits[v]>>

\* os.path.join(base, dataset) and os.path.join(container, version)
ContainerStr(base, d) == base \o <<"/", d>>
PathStr(p) == ContainerStr(p.base, p.ds) \o <<"/">> \o VerName(p.ver)

GvPath(d, v) == [base |-> bd1, ds |-> d, ver |-> v]
AvPath(d, v) == [base |-> bd2, ds |-> d, ver |-> v]

\* Python str ordering: by code point, a proper prefix is smaller.
CharOrd(c) ==
    CASE c = "/" -> 47
      [] c = "0" -> 48 [] c = "1" -> 49 [] c = "2" -> 50 [] c = "3" -> 51
      [] c = "4" -> 52 [] c = "5" -> 53 [] c = "6" -> 54 [] c = "7" -> 55
      [] c = "8" -> 56 [] c = "9" -> 57
      [] c = "a" -> 97 [] c = "b" -> 98 [] c = "c" -> 99 [] c = "d" -> 100
      [] c = "e" -> 101 [] c = "f" -> 102 [] c = "g" -> 103 [] c = "h" -> 104
      [] c = "l" -> 108 [] c = "s" -> 115 [] c = "t" -> 116
      [] c = "v" -> 118 [] c = "w" -> 119
      [] OTHER -> 0

RECURSIVE StrLess(_, _)
StrLess(s, t) ==
    IF t = <<>> THEN FALSE
    ELSE IF s = <<>> THEN TRUE
    ELSE IF Head(s) # Head(t) THEN CharOrd(Head(s)) < CharOrd(Head(t))
    ELSE StrLess(Tail(s), Tail(t))

\* the characters \d matches
DigitChars == {"0"} \cup Range(Digits)

\* names a directory entry can have beside the version names: "v" and eight
\* letters, a version name with one more digit, one with a digit less,
\* and "latest"
LetterName == <<"v", "a", "b", "c", "d", "e", "f", "g", "h">>
LongName == VerName(1) \o <<"0">>
ShortName == <<"v", "0", "0", "0", "0", "0", "0", "1">>
LatestName == <<"l", "a", "t", "e", "s", "t">>
Names == {VerName(v) : v \in Versions}
            \cup {LetterName, LongName, ShortName, LatestName}

\* str.endswith
EndsWith(s, t) ==
    /\ Len(t) <= Len(s)
    /\ SubSeq(s, Len(s) - Len(t) + 1, Len(s)) = t

(***************************************************************************)
(* Files and directories.                                                  *)
(***************************************************************************)
NoFile == [present |-> FALSE, size |-> 0, digest |-> 0, readable |-> TRUE]
File(s, g, r) == [present |-> TRUE, size |-> s, digest |-> g, readable |-> r]
Contents == {File(s, g, r) : s \in 1 .. MaxSize, g \in 1 .. MaxDigest, r \in BOOLEAN}
FileVals == {NoFile} \cup Contents

\* the one possible subdirectory "sub" of a version directory, holding "n"
NoSub == [present |-> FALSE, n |-> NoFile]
Sub(fv) == [present |-> TRUE, n |-> fv]

Absent == [kind |-> "absent"]
Dir(files, sub) == [kind |-> "dir", files |-> files, sub |-> sub]
Link(target) == [kind |-> "link", target |-> target]

EmptyFiles == [n \in TopNames |-> NoFile]
EmptyDir == Dir(EmptyFiles, NoSub)

(***************************************************************************)
(* State.                                                                  *)
(***************************************************************************)
VARIABLES
    base_ok,        \* [bd1, bd2]: does each top-level directory exist
    gws,            \* working tree: gws[d][v] is the entry at bd1/d/v
    arc,            \* archive tree: arc[d] is the container at bd2/d
    gws_latest,     \* gws_latest[d]: what bd1/d/latest is
    run,            \* number of the current run of main()
    pc,             \* position of main(): start, datasets, versions, done, raised
    dirs_to_check,  \* datasets found by identify_dirs and not yet visited
    d1,             \* the dataset of the current iteration of the outer loop
    gws_versions,   \* versions of d1 still to visit, newest first
    arc_latest,     \* arc_dir.latest of the current dataset
    muts,           \* filesystem mutations performed by the current run
    calls,          \* delete_dir and symlink calls that returned, in order
    log,            \* messages logged by the current run
    start,          \* the two trees as they were when the current run began
    cmp,            \* inputs and results of dirs_match applied on its own
    scan            \* a directory tree by names, and the results of discovery on it

vars == <<base_ok, gws, arc, gws_latest, run, pc, dirs_to_check, d1,
          gws_versions, arc_latest, muts, calls, log, start, cmp, scan>>

engine_vars == <<base_ok, gws, arc, gws_latest, run, pc, dirs_to_check, d1,
                 gws_versions, arc_latest, muts, calls, log, start>>

(***************************************************************************)
(* Content Verifier: nested_list, size, md5, dirs_match.                   *)
(***************************************************************************)
PresentNames(dir) == {n \in TopNames : dir.files[n].present}

\* pth.replace(remove_base, "") guarded by "if remove_base"
StripBase(item, remove_base) ==
    IF remove_base # <<>> /\ item.base = remove_base
    THEN [item EXCEPT !.base = <<>>]
    ELSE item

\* nested_list(d, remove_base): the listed paths of directory d whose content
\* is dir.  The recursive call for a subdirectory passes no remove_base, so
\* nested paths keep their base.  The result is sorted and holds no path
\* twice, so two results are equal lists iff they are equal sets.
nested_list(d, remove_base, dir) ==
    {StripBase([base |-> d.base, ds |-> d.ds, ver |-> d.ver, sub |-> FALSE, name |-> n],
               remove_base) : n \in PresentNames(dir)}
    \cup
    (IF dir.sub.present /\ dir.sub.n.present
     THEN {[base |-> d.base, ds |-> d.ds, ver |-> d.ver, sub |-> TRUE, name |-> "n"]}
     ELSE {})

\* One pass of the body of "for i in d1" for the character c of the str d1:
\* 1 if it adds to errs, 0 if not.
PairErr(c, dir1, dir2) ==
    IF ~(c \in TopNames /\ dir1.files[c].present) THEN 0         \* not os.path.isfile(i1)
    ELSE IF dir1.files[c].size # dir2.files[c].size THEN 1
    ELSE IF dir1.files[c].digest # dir2.files[c].digest THEN 1
    ELSE 0

\* Does one pass of the body raise: size() of a missing file, md5() of a
\* file that cannot be opened.
PairRaises(c, dir1, dir2) ==
    /\ c \in TopNames /\ dir1.files[c].present
    /\ \/ ~dir2.files[c].present
       \/ /\ dir1.files[c].size = dir2.files[c].size
          /\ ~(dir1.files[c].readable /\ dir2.files[c].readable)

\* dirs_match(d1, d2, basedir1, basedir2) where dir1 and dir2 are what the
\* filesystem holds at d1 and d2.  Result: "None" (bare return), "True",
\* "False", or "IOError" when an exception leaves the function.
dirs_match(p1, p2, basedir1, basedir2, dir1, dir2) ==
    LET l1 == nested_list(p1, basedir1, dir1)
        l2 == nested_list(p2, basedir2, dir2)
        str == PathStr(p1)
        errs == Cardinality({i \in DOMAIN str : PairErr(str[i], dir1, dir2) = 1})
    IN  IF l1 # l2 THEN "None"
        ELSE IF \E i \in DOMAIN str : PairRaises(str[i], dir1, dir2) THEN "IOError"
        ELSE IF errs = 0 THEN "True" ELSE "False"

\* truth value of a result of dirs_match as "elif dirs_match(...)" sees it
Truthy(res) == res = "True"

(***************************************************************************)
(* Version Catalog and Dataset Locator.                                    *)
(***************************************************************************)
\* what the filesystem shows at a working entry: a symlink is followed
Resolve(e, arcfs) ==
    IF e.kind = "link" THEN arcfs[e.target.ds].vers[e.target.ver] ELSE e

\* os.path.isdir of a version entry (follows symlinks)
IsDir(e, arcfs) == Resolve(e, arcfs).kind = "dir"

RECURSIVE SortedNames(_)
\* sorted(): ascending in str order
SortedNames(S) ==
    IF S = {} THEN <<>>
    ELSE LET m == CHOOSE x \in S : \A y \in S \ {x} : StrLess(VerName(x), VerName(y))
         IN  <<m>> \o SortedNames(S \ {m})

\* find_versions(dr): glob keeps every entry named v????????, whatever it is.
\* The result is given by version number, in the order of the names.
find_versions(entries) == SortedNames({v \in Versions : entries[v].kind # "absent"})

\* reversed()
Reversed(s) == [i \in 1 .. Len(s) |-> s[Len(s) + 1 - i]]

\* identify_dirs(bd1): containers with a subdirectory named like a version;
\* os.walk counts a symlink to a directory as a subdirectory.
identify_dirs(wfs, arcfs) ==
    {d \in Datasets : \E v \in Versions : IsDir(wfs[d][v], arcfs)}

\* glob pattern v????????: "v" and any eight characters
GlobMatch(n) == Len(n) = 9 /\ n[1] = "v"

\* re.match(r"v\d{8}", n): the pattern is matched at the start of the name,
\* and what follows the eighth digit is not looked at
ReMatch(n) ==
    /\ Len(n) >= 9
    /\ n[1] = "v"
    /\ \A i \in 2 .. 9 : n[i] \in DigitChars

RECURSIVE SortedStrs(_)
\* sorted() of a set of names
SortedStrs(S) ==
    IF S = {} THEN <<>>
    ELSE LET m == CHOOSE x \in S : \A y \in S \ {x} : StrLess(x, y)
         IN  <<m>> \o SortedStrs(S \ {m})

\* find_versions(dr) on a directory given by the names of its children:
\* glob yields nothing for a path that does not exist, and does not look at
\* what kind of entry a name is
FindVersions(dir) ==
    IF ~dir.exists THEN <<>>
    ELSE SortedStrs({n \in DOMAIN dir.child :
                        dir.child[n] # "absent" /\ GlobMatch(n)})

\* the subdirs os.walk gives for a directory: directories and symlinks to
\* directories
Subdirs(dir) == {n \in DOMAIN dir.child : dir.child[n] \in {"dir", "link"}}

\* identify_dirs(d) on the tree made of the directory "top" and its
\* subdirectory "c": the directories os.walk visits that have a subdirectory
\* whose name re.match accepts.  The version directories are empty.
IdentifyDirs(tree) ==
    IF ~tree.top.exists THEN {}
    ELSE {w \in {"top", "c"} :
            /\ tree[w].exists
            /\ \E n \in Subdirs(tree[w]) : ReMatch(n)}

\* ArchiveDir.__init__ and _check_valid for the container a:
\* "valid", "invalid", or "IndexError" when self.versions[-1] is evaluated
\* on an empty list.  a.latest is <<>> when there is no latest symlink
\* (self.latest = False).
ArchiveDir(a) ==
    LET versions == find_versions(a.vers)
        first == IF ~a.exists THEN FALSE
                 ELSE IF versions = <<>> THEN FALSE
                 ELSE TRUE
    IN  IF a.latest = <<>> THEN "invalid"
        ELSE IF versions = <<>> THEN "IndexError"
        ELSE IF a.latest # VerName(versions[Len(versions)]) THEN "invalid"
        ELSE IF first THEN "valid" ELSE "invalid"

\* the messages _check_valid logs
ArchiveErrors(a) ==
    LET versions == find_versions(a.vers)
    IN  (IF ~a.exists THEN {"archive missing"}
         ELSE IF versions = <<>> THEN {"no versions"} ELSE {})
        \cup
        (IF a.latest = <<>> THEN {"no latest"}
         ELSE IF versions # <<>> /\ a.latest # VerName(versions[Len(versions)])
              THEN {"latest not newest"} ELSE {})

(***************************************************************************)
(* Mutation Actions: delete_dir, symlink.                                  *)
(***************************************************************************)
Mut(op, tree, d, v, n) == [op |-> op, tree |-> tree, ds |-> d, ver |-> v, name |-> n]

\* a call of delete_dir(bd1/d/v) or symlink(bd2/d/v, bd1/d/v) that returned
Call(f, d, v) == [call |-> f, ds |-> d, ver |-> v]

RemoveFiles(dir, S) ==
    [dir EXCEPT !.files = [n \in TopNames |-> IF n \in S THEN NoFile ELSE dir.files[n]]]

\* The sets of files that the loop of delete_dir can have removed when it
\* ends: all of them, or, when os.remove meets the subdirectory and raises,
\* those that os.listdir gave before it (os.listdir gives any order).
RemovableSets(dir) ==
    IF dir.sub.present THEN SUBSET PresentNames(dir) ELSE {PresentNames(dir)}

\* a removal that works through a symlink and then removes the link itself
delete_through_link(wfs, arcfs, d, v, S) ==
    LET e == wfs[d][v]
        t == e.target
    IN  IF e.kind = "link" /\ arcfs[t.ds].vers[t.ver].kind = "dir" THEN
            [gws |-> [wfs EXCEPT ![d][v] = Absent],
             arc |-> [arcfs EXCEPT ![t.ds].vers[t.ver] = RemoveFiles(@, S)],
             muts |-> {Mut("remove", "a", t.ds, t.ver, n) : n \in S},
             calls |-> <<Call("delete_dir", d, v)>>,
             ok |-> TRUE]
        ELSE
            [gws |-> [wfs EXCEPT ![d][v] =
                         IF e.kind = "dir" /\ ~e.sub.present THEN Absent
                         ELSE IF e.kind = "dir" THEN RemoveFiles(e, S) ELSE e],
             arc |-> arcfs,
             muts |-> IF e.kind = "dir"
                      THEN {Mut("remove", "w", d, v, n) : n \in S}
                           \cup (IF e.sub.present THEN {} ELSE {Mut("rmdir", "w", d, v, "")})
                      ELSE {},
             calls |-> IF e.kind = "dir" /\ ~e.sub.present
                       THEN <<Call("delete_dir", d, v)>> ELSE <<>>,
             ok |-> e.kind = "dir" /\ ~e.sub.present]

\* a removal of the whole tree at bd1/d/v, subdirectory included
delete_tree(wfs, arcfs, d, v, S) ==
    IF wfs[d][v].kind = "dir"
    THEN [gws |-> [wfs EXCEPT ![d][v] = Absent],
          arc |-> arcfs,
          muts |-> {Mut("remove", "w", d, v, n) : n \in PresentNames(wfs[d][v])}
                   \cup {Mut("rmdir", "w", d, v, "")},
          calls |-> <<Call("delete_dir", d, v)>>,
          ok |-> TRUE]
    ELSE [gws |-> wfs, arc |-> arcfs, muts |-> {}, calls |-> <<>>, ok |-> FALSE]

\* delete_dir(bd1/d/v) having removed the files S.
\*   a plain directory: its files go, then os.rmdir removes it unless
\*     os.remove raised on the subdirectory;
\*   a symlink to a directory: os.listdir and os.remove work through the
\*     link, on the target's files, and os.rmdir of the link then raises;
\*   a symlink to nothing: os.listdir raises.
delete_dir(wfs, arcfs, d, v, S) ==
    LET e == wfs[d][v]
        t == e.target
    IN  IF e.kind = "dir" THEN
            [gws |-> [wfs EXCEPT ![d][v] =
                         IF e.sub.present THEN RemoveFiles(e, S) ELSE Absent],
             arc |-> arcfs,
             muts |-> {Mut("remove", "w", d, v, n) : n \in S}
                      \cup (IF e.sub.present THEN {} ELSE {Mut("rmdir", "w", d, v, "")}),
             calls |-> IF e.sub.present THEN <<>> ELSE <<Call("delete_dir", d, v)>>,
             ok |-> ~e.sub.present]
        ELSE IF e.kind = "link" /\ arcfs[t.ds].vers[t.ver].kind = "dir" THEN
            [gws |-> wfs,
             arc |-> [arcfs EXCEPT ![t.ds].vers[t.ver] = RemoveFiles(@, S)],
             muts |-> {Mut("remove", "a", t.ds, t.ver, n) : n \in S},
             calls |-> <<>>,
             ok |-> FALSE]
        ELSE
            [gws |-> wfs, arc |-> arcfs, muts |-> {}, calls |-> <<>>, ok |-> FALSE]

\* the choices of S for delete_dir(bd1/d/v)
DeleteChoices(wfs, arcfs, d, v) ==
    IF IsDir(wfs[d][v], arcfs) THEN RemovableSets(Resolve(wfs[d][v], arcfs)) ELSE {{}}

\* symlink(av_path, gv_path)
symlink(wfs, d, v) == [wfs EXCEPT ![d][v] = Link(AvPath(d, v))]

\* the symlink made whether or not delete_dir returned
DeleteAndLinkAnyway(wfs, arcfs, d, v, S) ==
    LET r == delete_dir(wfs, arcfs, d, v, S)
    IN  [r EXCEPT !.gws = symlink(r.gws, d, v),
                  !.muts = r.muts \cup {Mut("symlink", "w", d, v, "")},
                  !.calls = r.calls \o <<Call("symlink", d, v)>>,
                  !.ok = TRUE]

\* delete_dir(gv_path); symlink(av_path, gv_path): the symlink is made only
\* when delete_dir returned.
DeleteAndLink(wfs, arcfs, d, v, S) ==
    LET r == delete_dir(wfs, arcfs, d, v, S)
    IN  IF r.ok
        THEN [r EXCEPT !.gws = symlink(r.gws, d, v),
                       !.muts = r.muts \cup {Mut("symlink", "w", d, v, "")},
                       !.calls = r.calls \o <<Call("symlink", d, v)>>]
        ELSE r

(***************************************************************************)
(* Reconciliation Engine: main(bd1, bd2).                                  *)
(***************************************************************************)
\* the comparison taken for "not equal"
IsOlderNotEqual(gws_version, latest) == gws_version # latest

\* "if gws_version < arc_dir.latest"
IsOlder(gws_version, latest) == StrLess(gws_version, latest)

\* "elif gws_version == arc_dir.latest"
IsLatest(gws_version, latest) == gws_version = latest

\* "Path(gv_path).is_symlink() and ...readlink().as_posix().endswith(av_path)"
PointsToArchive(e, av_path) ==
    e.kind = "link" /\ EndsWith(PathStr(e.target), PathStr(av_path))

\* os.path.exists(bd1/d/latest): follows a symlink
LatestExists(l) == l \in {"link", "plain"}

\* The report of the working latest link closing the last two branches:
\* readlink() of an entry that exists and is no symlink raises OSError.
LatestReportRaises(l) == LatestExists(l) /\ l # "link"

LatestReport(d, l) ==
    IF LatestExists(l) THEN {<<"gws latest points to", d>>}
    ELSE {<<"no gws latest", d>>}

\* only the first top-level directory is looked at
TopLevelMissingFirst(b) == ~b.bd1

\* for dr in (bd1, bd2): if not os.path.isdir(dr)
TopLevelMissing(b) == ~b.bd1 \/ ~b.bd2

\* main() up to the loop over datasets
MainStart ==
    /\ pc = "start"
    /\ IF TopLevelMissing(base_ok)
       THEN /\ log' = log \cup {<<"top-level directory missing", "">>}
            /\ pc' = "done"
            /\ dirs_to_check' = {}
       ELSE /\ dirs_to_check' = identify_dirs(gws, arc)
            /\ log' = log \cup (IF identify_dirs(gws, arc) = {}
                                THEN {<<"no content", "">>} ELSE {})
            /\ pc' = "datasets"
    /\ UNCHANGED <<base_ok, gws, arc, gws_latest, run, d1, gws_versions,
                   arc_latest, muts, calls, start, cmp, scan>>

\* One iteration of "for d1 in dirs_to_check" up to the inner loop, for an
\* archive container that is valid.  os.walk gives the datasets in the
\* order of the directory listing, which is any order.
EnterDataset(d) ==
    /\ pc = "datasets"
    /\ d \in dirs_to_check
    /\ ArchiveDir(arc[d]) = "valid"
    /\ dirs_to_check' = dirs_to_check \ {d}
    /\ d1' = d
    /\ gws_versions' = Reversed(find_versions(gws[d]))
    /\ arc_latest' = arc[d].latest
    /\ pc' = "versions"
    /\ UNCHANGED <<base_ok, gws, arc, gws_latest, run, muts, calls, log, start, cmp, scan>>

\* The same for a container found invalid: "continue"
SkipDataset(d) ==
    /\ pc = "datasets"
    /\ d \in dirs_to_check
    /\ ArchiveDir(arc[d]) = "invalid"
    /\ dirs_to_check' = dirs_to_check \ {d}
    /\ log' = log \cup {<<m, d>> : m \in ArchiveErrors(arc[d])}
    /\ UNCHANGED <<base_ok, gws, arc, gws_latest, run, pc, d1, gws_versions,
                   arc_latest, muts, calls, start, cmp, scan>>

\* The same when ArchiveDir() raises: the exception leaves main()
ArchiveRaises(d) ==
    /\ pc = "datasets"
    /\ d \in dirs_to_check
    /\ ArchiveDir(arc[d]) = "IndexError"
    /\ dirs_to_check' = dirs_to_check \ {d}
    /\ log' = log \cup {<<m, d>> : m \in ArchiveErrors(arc[d])}
    /\ pc' = "raised"
    /\ UNCHANGED <<base_ok, gws, arc, gws_latest, run, d1, gws_versions,
                   arc_latest, muts, calls, start, cmp, scan>>

\* the current version of the inner loop
Cur == Head(gws_versions)

\* the end of an iteration of the inner loop: on to the next version, or
\* out of main() with the exception
Step(raised) ==
    IF raised
    THEN pc' = "raised" /\ UNCHANGED gws_versions
    ELSE pc' = "versions" /\ gws_versions' = Tail(gws_versions)

\* Branch 1, lines 166-169: the working version is older than the archive's
\* latest
Stale ==
    /\ pc = "versions" /\ gws_versions # <<>>
    /\ IsOlder(VerName(Cur), arc_latest)
    /\ \E S \in DeleteChoices(gws, arc, d1, Cur) :
         LET r == DeleteAndLink(gws, arc, d1, Cur, S)
         IN  /\ gws' = r.gws
             /\ arc' = r.arc
             /\ muts' = muts \cup r.muts
             /\ calls' = calls \o r.calls
             /\ log' = log \cup (IF r.ok THEN {<<"deleted old version", d1>>} ELSE {})
             /\ Step(~r.ok)
    /\ UNCHANGED <<base_ok, gws_latest, run, dirs_to_check, d1, arc_latest,
                   start, cmp, scan>>

\* Branch 2, lines 172-189: the working version is the archive's latest
Equal ==
    /\ pc = "versions" /\ gws_versions # <<>>
    /\ ~IsOlder(VerName(Cur), arc_latest)
    /\ IsLatest(VerName(Cur), arc_latest)
    /\ LET gv == gws[d1][Cur]
           av == arc[d1].vers[Cur]
           lr == LatestReportRaises(gws_latest[d1])
           rep == {<<"archive latest points to", d1>>}
                  \cup (IF lr THEN {} ELSE LatestReport(d1, gws_latest[d1]))
       IN  IF PointsToArchive(gv, AvPath(d1, Cur)) THEN
               /\ log' = log \cup {<<"correctly points", d1>>} \cup rep
               /\ Step(lr)
               /\ UNCHANGED <<gws, arc, muts, calls>>
           ELSE IF ~IsDir(gv, arc) \/ av.kind # "dir" THEN
               \* os.listdir in nested_list raises
               /\ Step(TRUE)
               /\ UNCHANGED <<gws, arc, muts, calls, log>>
           ELSE
               LET res == dirs_match(GvPath(d1, Cur), AvPath(d1, Cur), bd1, bd2,
                                     Resolve(gv, arc), av)
               IN  IF res = "IOError" THEN
                       /\ Step(TRUE)
                       /\ UNCHANGED <<gws, arc, muts, calls, log>>
                   ELSE IF Truthy(res) THEN
                       \E S \in DeleteChoices(gws, arc, d1, Cur) :
                         LET r == DeleteAndLink(gws, arc, d1, Cur, S)
                         IN  /\ gws' = r.gws
                             /\ arc' = r.arc
                             /\ muts' = muts \cup r.muts
                             /\ calls' = calls \o r.calls
                             /\ log' = log \cup (IF r.ok
                                                 THEN {<<"deleted and symlinked", d1>>} \cup rep
                                                 ELSE {})
                             /\ Step(~r.ok \/ lr)
                   ELSE
                       /\ log' = log \cup {<<"dirs differ", d1>>} \cup rep
                       /\ Step(lr)
                       /\ UNCHANGED <<gws, arc, muts, calls>>
    /\ UNCHANGED <<base_ok, gws_latest, run, dirs_to_check, d1, arc_latest,
                   start, cmp, scan>>

\* Branch 3, lines 192-198: the working version is newer than the archive's
\* latest
Newer ==
    /\ pc = "versions" /\ gws_versions # <<>>
    /\ ~IsOlder(VerName(Cur), arc_latest)
    /\ ~IsLatest(VerName(Cur), arc_latest)
    /\ log' = log \cup {<<"gws version is newer", d1>>}
                  \cup (IF LatestReportRaises(gws_latest[d1]) THEN {}
                        ELSE LatestReport(d1, gws_latest[d1]))
    /\ Step(LatestReportRaises(gws_latest[d1]))
    /\ UNCHANGED <<base_ok, gws, arc, gws_latest, run, dirs_to_check, d1,
                   arc_latest, muts, calls, start, cmp, scan>>

\* The body of the inner loop, lines 161-198, as a function of the
\* filesystem: the filesystems one iteration for version v of dataset d can
\* leave, each with whether the iteration raised.  al is arc_latest, gl the
\* state of the working latest entry.
VersionStep(wfs, arcfs, d, v, al, gl) ==
    LET same(raised) == {[gws |-> wfs, arc |-> arcfs, raised |-> raised]}
        replaced(also) ==
            {LET r == DeleteAndLink(wfs, arcfs, d, v, S)
             IN  [gws |-> r.gws, arc |-> r.arc, raised |-> ~r.ok \/ also] :
                S \in DeleteChoices(wfs, arcfs, d, v)}
        gv == wfs[d][v]
        av == arcfs[d].vers[v]
        lr == LatestReportRaises(gl)
    IN  IF IsOlder(VerName(v), al) THEN replaced(FALSE)
        ELSE IF IsLatest(VerName(v), al) THEN
            IF PointsToArchive(gv, AvPath(d, v)) THEN same(lr)
            ELSE IF ~IsDir(gv, arcfs) \/ av.kind # "dir" THEN same(TRUE)
            ELSE LET res == dirs_match(GvPath(d, v), AvPath(d, v), bd1, bd2,
                                       Resolve(gv, arcfs), av)
                 IN  IF res = "IOError" THEN same(TRUE)
                     ELSE IF Truthy(res) THEN replaced(lr)
                     ELSE same(lr)
        ELSE same(lr)

RECURSIVE RunOrder(_, _, _, _, _, _)
\* The inner loop over the versions in the given order: the filesystems it
\* can leave; an iteration that raises ends it.
RunOrder(wfs, arcfs, d, order, al, gl) ==
    IF order = <<>> THEN {[gws |-> wfs, arc |-> arcfs]}
    ELSE UNION {IF o.raised THEN {[gws |-> o.gws, arc |-> o.arc]}
                ELSE RunOrder(o.gws, o.arc, d, Tail(order), al, gl) :
                    o \in VersionStep(wfs, arcfs, d, Head(order), al, gl)}

\* the inner loop is exhausted: back to the loop over datasets
EndDataset ==
    /\ pc = "versions" /\ gws_versions = <<>>
    /\ pc' = "datasets"
    /\ UNCHANGED <<base_ok, gws, arc, gws_latest, run, dirs_to_check, d1,
                   gws_versions, arc_latest, muts, calls, log, start, cmp, scan>>

\* the loop over datasets is exhausted: main() returns
Finish ==
    /\ pc = "datasets" /\ dirs_to_check = {}
    /\ pc' = "done"
    /\ UNCHANGED <<base_ok, gws, arc, gws_latest, run, dirs_to_check, d1,
                   gws_versions, arc_latest, muts, calls, log, start, cmp, scan>>

\* main() is run again on the filesystem the previous run left
Rerun ==
    /\ pc \in {"done", "raised"}
    /\ run < MaxRuns
    /\ run' = run + 1
    /\ pc' = "start"
    /\ dirs_to_check' = {}
    /\ gws_versions' = <<>>
    /\ muts' = {}
    /\ calls' = <<>>
    /\ log' = {}
    /\ start' = [gws |-> gws, arc |-> arc, pc |-> pc]
    /\ UNCHANGED <<base_ok, gws, arc, gws_latest, d1, arc_latest, cmp, scan>>

(***************************************************************************)
(* Initial filesystems of the engine, in three families:                   *)
(*   InitArchives  archive containers of every shape for dataset "d", one  *)
(*                 working version; dataset "e" absent or present;         *)
(*   InitWorking   working versions of every shape against a valid archive *)
(*                 of "d" (one version fewer when the archive is nested or *)
(*                 lacks its older versions); dataset "e" present;         *)
(*   InitLatest    every state of the working latest entry of "d".         *)
(***************************************************************************)
Plain == File(1, 1, TRUE)
Canon == Dir([n \in TopNames |-> IF n = "w" THEN NoFile ELSE Plain], NoSub)
CanonNested == [Canon EXCEPT !.sub = Sub(Plain)]

WithFile(dir, n, fv) == [dir EXCEPT !.files[n] = fv]

\* plain working directories: the archive copy and its one-place changes
WorkDirs ==
    {Canon, CanonNested,
     WithFile(Canon, "f", File(MaxSize, MaxDigest, TRUE)),
     WithFile(Canon, "v", File(1, MaxDigest, TRUE)),
     WithFile(Canon, "f", File(1, 1, FALSE)),
     WithFile(Canon, "v", File(1, 1, FALSE))}

\* a working version is one of WorkDirs or the symlink that main() makes
OwnLink == [kind |-> "ownlink"]
WorkKinds == WorkDirs \cup {OwnLink}
EntryOf(d, v, k) == IF k = OwnLink THEN Link(AvPath(d, v)) ELSE k

NoVersions == [v \in Versions |-> Absent]
Only(P, e) == [v \in Versions |-> IF v \in P THEN e[v] ELSE Absent]

ArcMissing == [exists |-> FALSE, vers |-> NoVersions, latest |-> <<>>]

LatestTargets(d) ==
    {<<>>} \cup {VerName(v) : v \in Versions}
           \cup {PathStr(AvPath(d, v)) : v \in Versions}

AllArchives(d) ==
    {ArcMissing} \cup
    {[exists |-> TRUE, vers |-> Only(P, [v \in Versions |-> Canon]), latest |-> l] :
        P \in SUBSET Versions, l \in LatestTargets(d)}

\* a valid container: latest names the newest version m; the versions up
\* to m are all there, each holding c
FullArchive(m, c) ==
    [exists |-> TRUE, vers |-> Only(1 .. m, [v \in Versions |-> c]), latest |-> VerName(m)]

\* the same with the older versions missing
SparseArchive(m) ==
    [exists |-> TRUE, vers |-> Only({m}, [v \in Versions |-> Canon]), latest |-> VerName(m)]

CanonArchives == {FullArchive(m, Canon) : m \in Versions}

OtherArchives ==
    {FullArchive(m, CanonNested) : m \in Versions} \cup {SparseArchive(m) : m \in Versions}

\* working containers of dataset d with at most k versions
WorkSets(d, k) ==
    UNION {{Only(P, [v \in Versions |-> EntryOf(d, v, e[v])]) : e \in [P -> WorkKinds]} :
             P \in {Q \in SUBSET Versions : Cardinality(Q) <= k}}

LatestKinds == {"absent", "link", "dangling", "plain"}

Dataset(a, w, l) == [arc |-> a, gws |-> w, latest |-> l]

NoDataset == Dataset(ArcMissing, NoVersions, "absent")
OneStale == Dataset(FullArchive(2, Canon), Only({1}, [v \in Versions |-> Canon]), "absent")

InitArchives ==
    {[d |-> Dataset(a, Only({v}, [u \in Versions |-> Canon]), "absent"), e |-> o] :
        a \in AllArchives("d"), v \in Versions, o \in {NoDataset, OneStale}}

InitWorking ==
    {[d |-> Dataset(a, w, "absent"), e |-> OneStale] :
        a \in CanonArchives, w \in WorkSets("d", MaxEntries)}
    \cup
    {[d |-> Dataset(a, w, "absent"), e |-> OneStale] :
        a \in OtherArchives, w \in WorkSets("d", MaxEntries - 1)}

InitLatest ==
    {[d |-> Dataset(FullArchive(m, Canon), w, l), e |-> NoDataset] :
        m \in Versions, w \in WorkSets("d", 1), l \in LatestKinds}

NoDir == [exists |-> FALSE, child |-> [n \in Names |-> "absent"]]
NoScan == [top |-> NoDir, c |-> NoDir, versions |-> <<>>, cversions |-> <<>>,
           roots |-> {}, listed |-> FALSE, walked |-> FALSE]

NoCmp == [x |-> EmptyDir, y |-> EmptyDir, xy |-> "", yx |-> ""]

InitControl ==
    /\ run = 1
    /\ pc = "start"
    /\ dirs_to_check = {}
    /\ d1 = ""
    /\ gws_versions = <<>>
    /\ arc_latest = <<>>
    /\ muts = {}
    /\ calls = <<>>
    /\ log = {}
    /\ start = [gws |-> gws, arc |-> arc, pc |-> "start"]

Init ==
    /\ \E f \in InitArchives \cup InitWorking \cup InitLatest,
          b \in [bd1 : BOOLEAN, bd2 : BOOLEAN] :
        /\ base_ok = b
        \* a tree whose top-level directory is missing holds nothing
        /\ gws = [d \in Datasets |-> IF ~b.bd1 THEN NoVersions ELSE f[d].gws]
        /\ arc = [d \in Datasets |-> IF ~b.bd2 THEN ArcMissing ELSE f[d].arc]
        /\ gws_latest = [d \in Datasets |-> IF ~b.bd1 THEN "absent" ELSE f[d].latest]
    /\ cmp = NoCmp
    /\ scan = NoScan
    /\ InitControl

Next ==
    \/ MainStart
    \/ \E d \in Datasets : EnterDataset(d)
    \/ \E d \in Datasets : SkipDataset(d)
    \/ \E d \in Datasets : ArchiveRaises(d)
    \/ Stale
    \/ Equal
    \/ Newer
    \/ EndDataset
    \/ Finish
    \/ Rerun

Spec == Init /\ [][Next]_vars

(***************************************************************************)
(* dirs_match applied on its own to two directories X = /w/d/v00000001 and *)
(* Y = /a/d/v00000001, in both directions.                                 *)
(***************************************************************************)
Subs == {NoSub} \cup {Sub(fv) : fv \in FileVals}

FileCount(dir) ==
    Cardinality(PresentNames(dir)) + (IF dir.sub.present /\ dir.sub.n.present THEN 1 ELSE 0)

CmpDirs ==
    {x \in {Dir(f, s) : f \in [TopNames -> FileVals], s \in Subs} :
        FileCount(x) <= MaxCmpFiles}

\* x and the directories that differ from it in one place
Edits(x) ==
    {x} \cup {WithFile(x, n, fv) : n \in TopNames, fv \in FileVals}
        \cup {[x EXCEPT !.sub = s] : s \in Subs}

CmpX == GvPath("d", 1)
CmpY == AvPath("d", 1)

InitDirs ==
    /\ \E x \in CmpDirs : \E y \in Edits(x) :
         cmp = [x |-> x, y |-> y, xy |-> "", yx |-> ""]
    /\ scan = NoScan
    /\ base_ok = [bd1 |-> TRUE, bd2 |-> TRUE]
    /\ gws = [d \in Datasets |-> NoVersions]
    /\ arc = [d \in Datasets |-> ArcMissing]
    /\ gws_latest = [d \in Datasets |-> "absent"]
    /\ InitControl

\* dirs_match(X, Y, bd1, bd2)
CompareXY ==
    /\ cmp.xy = ""
    /\ cmp' = [cmp EXCEPT !.xy = dirs_match(CmpX, CmpY, bd1, bd2, cmp.x, cmp.y)]
    /\ UNCHANGED <<engine_vars, scan>>

\* dirs_match(Y, X, bd2, bd1)
CompareYX ==
    /\ cmp.yx = ""
    /\ cmp' = [cmp EXCEPT !.yx = dirs_match(CmpY, CmpX, bd2, bd1, cmp.y, cmp.x)]
    /\ UNCHANGED <<engine_vars, scan>>

NextDirs == CompareXY \/ CompareYX

SpecDirs == InitDirs /\ [][NextDirs]_vars

(***************************************************************************)
(* find_versions and identify_dirs applied on their own to a directory     *)
(* "top" with at most MaxNames named children and a subdirectory "c" with  *)
(* at most one.  The same name is a directory, a symlink to a directory or *)
(* a regular file.                                                         *)
(***************************************************************************)
EntryKinds == {"dir", "link", "file"}

NamedDirs(k) ==
    {[exists |-> TRUE, child |-> ch] :
        ch \in {f \in [Names -> EntryKinds \cup {"absent"}] :
                  Cardinality({n \in Names : f[n] # "absent"}) <= k}}

InitNames ==
    /\ \E t \in NamedDirs(MaxNames) \cup {NoDir} :
       \E c \in IF t.exists THEN NamedDirs(1) \cup {NoDir} ELSE {NoDir} :
         scan = [NoScan EXCEPT !.top = t, !.c = c]
    /\ cmp = NoCmp
    /\ base_ok = [bd1 |-> TRUE, bd2 |-> TRUE]
    /\ gws = [d \in Datasets |-> NoVersions]
    /\ arc = [d \in Datasets |-> ArcMissing]
    /\ gws_latest = [d \in Datasets |-> "absent"]
    /\ InitControl

\* find_versions(top), find_versions(top/c)
ListVersions ==
    /\ ~scan.listed
    /\ scan' = [scan EXCEPT !.versions = FindVersions(scan.top),
                            !.cversions = FindVersions(scan.c),
                            !.listed = TRUE]
    /\ UNCHANGED <<engine_vars, cmp>>

\* identify_dirs(top)
WalkTree ==
    /\ ~scan.walked
    /\ scan' = [scan EXCEPT !.roots = IdentifyDirs(scan), !.walked = TRUE]
    /\ UNCHANGED <<engine_vars, cmp>>

NextNames == ListVersions \/ WalkTree

SpecNames == InitNames /\ [][NextNames]_vars

(***************************************************************************)
(* Vocabulary of the properties: what the specification calls a valid      *)
(* archive and equal directories, stated on the filesystem and not through *)
(* the code.                                                               *)
(***************************************************************************)
RECURSIVE Basename(_)
Basename(s) ==
    IF \E i \in DOMAIN s : s[i] = "/"
    THEN Basename(Tail(s))
    ELSE s

HasVersions(a) == \E v \in Versions : a.vers[v].kind # "absent"
MaxVersion(a) == CHOOSE v \in Versions :
    /\ a.vers[v].kind # "absent"
    /\ \A u \in Versions : a.vers[u].kind # "absent" => u <= v

\* root exists, >= 1 version, a latest symlink, its target basename is the
\* maximum version
ArchiveStateValid(a) ==
    /\ a.exists
    /\ HasVersions(a)
    /\ a.latest # <<>>
    /\ Basename(a.latest) = VerName(MaxVersion(a))

\* the files of a directory by relative path
RelFiles(dir) ==
    [n \in TopNames \cup {"sub/n"} |->
        IF n = "sub/n" THEN (IF dir.sub.present THEN dir.sub.n ELSE NoFile)
        ELSE dir.files[n]]

SameListing(x, y) ==
    \A n \in DOMAIN RelFiles(x) : RelFiles(x)[n].present = RelFiles(y)[n].present

SizeOrDigestDiffers(x, y) ==
    \E n \in DOMAIN RelFiles(x) :
        /\ RelFiles(x)[n].present /\ RelFiles(y)[n].present
        /\ \/ RelFiles(x)[n].size # RelFiles(y)[n].size
           \/ RelFiles(x)[n].digest # RelFiles(y)[n].digest

\* same recursive listing, same size and digest of every file pair
Identical(x, y) ==
    /\ SameListing(x, y) /\ ~SizeOrDigestDiffers(x, y)
    /\ \A n \in DOMAIN RelFiles(x) : RelFiles(x)[n].readable /\ RelFiles(y)[n].readable

AllReadable(x) == \A n \in DOMAIN RelFiles(x) : RelFiles(x)[n].readable
Unreadable(x) == ~AllReadable(x)

\* at the start of the run, v is a plain working directory of dataset d and
\* is the latest version of d's valid archive
LatestPlain(d, v) ==
    /\ base_ok.bd1 /\ base_ok.bd2
    /\ ArchiveStateValid(start.arc[d])
    /\ start.arc[d].latest = VerName(v)
    /\ start.gws[d][v].kind = "dir"
    /\ start.arc[d].vers[v].kind = "dir"

\* the inner loop is about to visit version v of dataset d
Visiting(d, v) ==
    pc = "versions" /\ gws_versions # <<>> /\ d1 = d /\ Cur = v

(***************************************************************************)
(* C1 - No-loss guarantee: a plain working version equal to archive.latest *)
(* with a file that differs from its archive counterpart in size or digest *)
(* is never deleted nor replaced by a symlink: it stays as it was when the *)
(* run began.                                                              *)
(***************************************************************************)
C1_NoLoss ==
    \A d \in Datasets, v \in Versions :
        (LatestPlain(d, v) /\ SizeOrDigestDiffers(start.gws[d][v], start.arc[d].vers[v]))
            => gws[d][v] = start.gws[d][v]

(***************************************************************************)
(* C2 - Idempotence: a second run of main(), following a run that          *)
(* returned, performs no filesystem mutation.                              *)
(***************************************************************************)
C2_Idempotent ==
    (run = 2 /\ start.pc = "done")
        => (muts = {} /\ gws = start.gws /\ arc = start.arc)

(***************************************************************************)
(* C3 - Fail-safe skip: the iteration of the dataset loop that finds the   *)
(* archive state invalid mutates nothing, reports the problem and goes on  *)
(* to the remaining datasets.                                              *)
(***************************************************************************)
C3_FailSafeSkip ==
    [][\A d \in Datasets :
         (pc = "datasets" /\ d \in dirs_to_check /\ d \notin dirs_to_check'
            /\ ~ArchiveStateValid(arc[d]))
         => /\ gws' = gws /\ arc' = arc /\ muts' = muts
            /\ \E m \in log' \ log : m[2] = d
            /\ pc' = "datasets"]_vars

(***************************************************************************)
(* C4 - dirs_match returns equality iff the two directories have the same  *)
(* recursive relative listing and every file pair has the same size and    *)
(* the same digest (all files readable).                                   *)
(***************************************************************************)
C4_EqualIff ==
    (cmp.xy # "" /\ AllReadable(cmp.x) /\ AllReadable(cmp.y))
        => (Truthy(cmp.xy)
              <=> (SameListing(cmp.x, cmp.y) /\ ~SizeOrDigestDiffers(cmp.x, cmp.y)))

(***************************************************************************)
(* C5 - Archive validity: constructing ArchiveDir yields a validity flag,  *)
(* and the flag is the conjunction of: root exists, a version is present,  *)
(* a latest symlink exists, its target basename is the maximum version.    *)
(***************************************************************************)
C5_ValidityIsConjunction ==
    [][\A d \in Datasets :
         (pc = "datasets" /\ d \in dirs_to_check /\ d \notin dirs_to_check')
         => /\ pc' # "raised"
            /\ (pc' = "versions") <=> ArchiveStateValid(arc[d])]_vars

(***************************************************************************)
(* C6 - Dedup correctness: a plain working version equal to archive.latest *)
(* whose recursive listing, sizes and digests are those of the archive     *)
(* copy (nested subdirectories included) is a symlink to the archive copy  *)
(* when the first run has returned, and still is when the second has.      *)
(***************************************************************************)
C6_Dedup ==
    \A d \in Datasets, v \in Versions :
        /\ (/\ run = 1 /\ pc = "done"
            /\ LatestPlain(d, v)
            /\ Identical(start.gws[d][v], start.arc[d].vers[v]))
               => gws[d][v] = Link(AvPath(d, v))
        /\ (/\ run = 2 /\ start.pc = "done"
            /\ ArchiveStateValid(arc[d]) /\ arc[d].latest = VerName(v)
            /\ start.gws[d][v] = Link(AvPath(d, v)))
               => gws[d][v] = start.gws[d][v]

(***************************************************************************)
(* C7 - Stale cleanup: the step of main() for a working version strictly   *)
(* older than the latest of its valid archive (here: an entry showing a    *)
(* directory of direct file entries only) removes the contents and the     *)
(* directory of W/v and creates the symlink W/v -> A/v; nothing else is    *)
(* touched.                                                                *)
(***************************************************************************)
C7_StaleCleanup ==
    [][\A d \in Datasets, v \in Versions :
         (/\ Visiting(d, v)
          /\ ArchiveStateValid(arc[d])
          /\ StrLess(VerName(v), arc[d].latest)
          /\ IsDir(gws[d][v], arc) /\ ~Resolve(gws[d][v], arc).sub.present)
         => /\ gws'[d][v] = Link(AvPath(d, v))
            /\ arc' = arc
            /\ {Mut("rmdir", "w", d, v, ""), Mut("symlink", "w", d, v, "")}
                  \subseteq muts']_vars

(***************************************************************************)
(* C8 - Newer-than-archive: the step of main() for a working version       *)
(* strictly greater than archive.latest mutates nothing in either tree and *)
(* logs the report, whatever the working dataset's latest entry is.        *)
(***************************************************************************)
C8_NewerUntouched ==
    [][\A d \in Datasets, v \in Versions :
         (Visiting(d, v) /\ StrLess(arc[d].latest, VerName(v)))
         => /\ gws' = gws /\ arc' = arc /\ muts' = muts
            /\ <<"gws version is newer", d>> \in log']_vars

\* a newer version has been reported, with a working latest entry that is
\* no symlink, and nothing was mutated
C8_Witness ==
    \E d \in Datasets :
        /\ <<"gws version is newer", d>> \in log
        /\ gws_latest[d] = "plain"
        /\ \E v \in Versions : start.gws[d][v].kind = "dir"
                               /\ StrLess(start.arc[d].latest, VerName(v))
        /\ muts = {}

C10_FailClosed ==
    \A d \in Datasets, v \in Versions :
        (/\ LatestPlain(d, v)
         /\ Unreadable(start.gws[d][v]) \/ Unreadable(start.arc[d].vers[v]))
            => gws[d][v] = start.gws[d][v]

\* delete_dir of the working entry at bd1/d/v cannot complete: the entry is
\* a symlink, or a directory holding a subdirectory
MutationFails(d, v) ==
    ~(gws[d][v].kind = "dir" /\ ~gws[d][v].sub.present)

(***************************************************************************)
(* C11 - Per-dataset isolation of mutation errors: a delete or symlink     *)
(* failure in the step of one version ends that step only; the exception   *)
(* does not leave main(), so the loops go on and the remaining datasets    *)
(* are still processed.                                                    *)
(***************************************************************************)
C11_Isolation ==
    [][\A d \in Datasets, v \in Versions :
         (/\ Visiting(d, v)
          /\ StrLess(VerName(v), arc[d].latest)
          /\ MutationFails(d, v))
         => /\ pc' # "raised"
            /\ dirs_to_check' = dirs_to_check]_vars

(***************************************************************************)
(* C12 - Delete-before-symlink ordering: every symlink call of a run comes *)
(* immediately after a delete_dir call of the same path that returned,     *)
(* never before it, and no symlink is made at a path whose delete failed.  *)
(***************************************************************************)
C12_DeleteBeforeSymlink ==
    \A i \in DOMAIN calls :
        calls[i].call = "symlink"
            => /\ i > 1
               /\ calls[i - 1] = Call("delete_dir", calls[i].ds, calls[i].ver)
               /\ Mut("rmdir", "w", calls[i].ds, calls[i].ver, "") \in muts
               /\ i < Len(calls) => calls[i + 1] # Call("delete_dir", calls[i].ds, calls[i].ver)

\* a run has replaced two versions, and the delete of a third path failed
C12_Witness ==
    /\ Len(calls) >= 4
    /\ calls[Len(calls)].call = "symlink"
    /\ pc = "raised"
    /\ \E m \in muts : m.op = "remove" /\ Mut("rmdir", m.tree, m.ds, m.ver, "") \notin muts

\* the version pattern of the specification: "v" followed by exactly 8 digits
VersionPattern(n) ==
    /\ Len(n) = 9
    /\ n[1] = "v"
    /\ \A i \in 2 .. 9 : n[i] \in DigitChars

Ascending(r) == \A i, j \in DOMAIN r : i < j => StrLess(r[i], r[j])

\* the results of find_versions beside the directories they were computed on
Listings == {<<scan.top, scan.versions>>, <<scan.c, scan.cversions>>}

(***************************************************************************)
(* C13 - find_versions returns exactly the immediate children of the       *)
(* dataset root whose names match the version pattern (v and 8 digits) and *)
(* nothing else, in ascending order, and the empty sequence when no child  *)
(* matches or the root does not exist.                                     *)
(***************************************************************************)
C13_ListVersions ==
    scan.listed =>
        \A l \in Listings :
            /\ Range(l[2]) = {n \in Names : /\ l[1].exists
                                            /\ l[1].child[n] # "absent"
                                            /\ VersionPattern(n)}
            /\ Ascending(l[2])
            /\ ~l[1].exists => l[2] = <<>>

(***************************************************************************)
(* C14 - identify_dirs returns a directory of the tree if and only if one  *)
(* of its immediate subdirectories has a name matching the version pattern *)
(* (v and exactly 8 digits); so every dataset root it returns has a        *)
(* non-empty version list under find_versions.                             *)
(***************************************************************************)
C14_DatasetRoots ==
    (scan.walked /\ scan.listed) =>
        /\ \A w \in {"top", "c"} :
             w \in scan.roots
                <=> (scan[w].exists /\ \E n \in Subdirs(scan[w]) : VersionPattern(n))
        /\ "top" \in scan.roots => scan.versions # <<>>
        /\ "c" \in scan.roots => scan.cversions # <<>>

(***************************************************************************)
(* C15 - Startup precondition: when the working base or the archive base   *)
(* is not an existing directory, main() reports an error and returns       *)
(* before any dataset is discovered or processed, and changes nothing in   *)
(* the filesystem.                                                         *)
(***************************************************************************)
C15_StartupPrecondition ==
    (~base_ok.bd1 \/ ~base_ok.bd2) =>
        /\ pc \in {"start", "done"}
        /\ pc = "done" => log = {<<"top-level directory missing", "">>}
        /\ dirs_to_check = {}
        /\ d1 = ""
        /\ muts = {}
        /\ calls = <<>>
        /\ gws = start.gws
        /\ arc = start.arc

\* main() has returned with the archive base missing and a working tree
\* that holds a version directory
C15_Witness ==
    /\ base_ok.bd1
    /\ ~base_ok.bd2
    /\ pc = "done"
    /\ <<"top-level directory missing", "">> \in log
    /\ \E d \in Datasets, v \in Versions : gws[d][v].kind = "dir"

\* the orders in which the versions of a sequence can be examined
Orders(q) ==
    {o \in [DOMAIN q -> Range(q)] : Range(o) = Range(q)}

\* the inner loop is about to begin on dataset d1
AtLoopEntry ==
    /\ pc = "versions"
    /\ gws_versions = Reversed(find_versions(gws[d1]))

(***************************************************************************)
(* C16 - Order independence: each working version of a dataset is judged   *)
(* on its own against the archive's latest pointer, so the filesystem the  *)
(* loop over the versions leaves is the same whether they are examined     *)
(* newest to oldest, as the code does, or in any other order.              *)
(***************************************************************************)
C16_OrderIndependent ==
    AtLoopEntry =>
        \A o \in Orders(gws_versions) :
            RunOrder(gws, arc, d1, o, arc_latest, gws_latest[d1])
                = RunOrder(gws, arc, d1, gws_versions, arc_latest, gws_latest[d1])

(***************************************************************************)
(* C17 - delete_dir removes every direct file entry of the path and then   *)
(* the emptied directory.  When an entry is a subdirectory it fails: the   *)
(* entries already removed stay removed, the directory itself is not       *)
(* removed, and no symlink is made at that path afterwards.  (On a path    *)
(* that is not a directory of the working tree the call fails as well and  *)
(* leaves the path as it is.)                                              *)
(***************************************************************************)
C17_DeleteDir ==
    [][/\ \A d \in Datasets, v \in Versions :
            (Visiting(d, v) /\ StrLess(VerName(v), arc[d].latest)) =>
                LET e == gws[d][v]
                IN  IF e.kind = "dir" /\ ~e.sub.present THEN
                        /\ {Mut("remove", "w", d, v, n) : n \in PresentNames(e)}
                              \cup {Mut("rmdir", "w", d, v, "")} \subseteq muts'
                        /\ gws'[d][v] = Link(AvPath(d, v))
                        /\ pc' = "versions"
                    ELSE IF e.kind = "dir" THEN
                        /\ pc' = "raised"
                        /\ \E S \in SUBSET PresentNames(e) :
                             /\ gws'[d][v] = RemoveFiles(e, S)
                             /\ muts' = muts \cup {Mut("remove", "w", d, v, n) : n \in S}
                        /\ calls' = calls
                    ELSE
                        /\ pc' = "raised"
                        /\ gws' = gws
                        /\ calls' = calls
       /\ \A d \in Datasets, v \in Versions :
            (gws[d][v].kind = "dir" /\ gws[d][v].sub.present)
                => (gws'[d][v].kind = "dir" /\ gws'[d][v].sub.present)]_vars

\* a run has replaced a flat stale version and then failed on one holding a
\* subdirectory, which is left with a file removed and a file in place
C17_Witness ==
    /\ pc = "raised"
    /\ \E i \in DOMAIN calls : calls[i].call = "symlink"
    /\ \E d \in Datasets, v \in Versions :
         /\ gws[d][v].kind = "dir"
         /\ gws[d][v].sub.present
         /\ \E n \in TopNames : Mut("remove", "w", d, v, n) \in muts
         /\ \E n \in TopNames : gws[d][v].files[n].present
         /\ Mut("symlink", "w", d, v, "") \notin muts

(***************************************************************************)
(* C18 - The archive tree is read-only: whatever the runs of main(), no    *)
(* file or directory of the archive tree is removed or changed, and every  *)
(* removal of delete_dir is of an entry of the working tree, also when the *)
(* working version path is already a symlink into the archive.             *)
(***************************************************************************)
C18_ArchiveReadOnly ==
    /\ arc = start.arc
    /\ \A m \in muts : m.tree = "w"

\* this step has deleted the working version v of dataset d and made the
\* symlink in its place
Replaced(d, v) ==
    calls' = calls \o <<Call("delete_dir", d, v), Call("symlink", d, v)>>

(***************************************************************************)
(* C19 - No dangling replacement, as claimed: whenever main() deletes a    *)
(* working version directory and makes the symlink in its place, the       *)
(* link's target in the archive exists as a directory at that moment.      *)
(***************************************************************************)
C19_NoDangling ==
    [][\A d \in Datasets, v \in Versions :
         Replaced(d, v) => arc'[d].vers[v].kind = "dir"]_vars

(***************************************************************************)
(* C19, amended - whenever main() deletes a working version directory and  *)
(* makes the symlink in its place, the link's target is what the archive   *)
(* held at that path when the run began: a directory when the version is   *)
(* the archive's latest, and for an older version a directory only if the  *)
(* archive holds that version, which the stale branch does not look at.    *)
(***************************************************************************)
C19_TargetAsArchived ==
    [][\A d \in Datasets, v \in Versions :
         Replaced(d, v) =>
            /\ arc'[d].vers[v] = start.arc[d].vers[v]
            /\ ~StrLess(VerName(v), arc[d].latest) => arc'[d].vers[v].kind = "dir"]_vars

\* a run has replaced a stale working version that held files by a symlink
\* to a version the archive does not hold
C19_Witness ==
    \E d \in Datasets, v \in Versions :
        /\ \E i \in DOMAIN calls : calls[i] = Call("symlink", d, v)
        /\ \E n \in TopNames : Mut("remove", "w", d, v, n) \in muts
        /\ gws[d][v] = Link(AvPath(d, v))
        /\ arc[d].vers[v].kind # "dir"

====
